---- MODULE Spec2Model ----
(***************************************************************************)
(* Smart Grader (ChackAnswer): the mark-density evaluator, the answer      *)
(* resolver / scorer and the upload handlers of src/App.tsx, with the      *)
(* evaluator of src/services/imageProcessor.ts that App.tsx imports.       *)
(*                                                                         *)
(* Numbers.  Box geometry is in whole percent, images are whole pixels.    *)
(* A coordinate such as x + w*0.2 is kept exactly, as a numerator over     *)
(* 1000; a density is kept exactly, as a numerator over a (possibly        *)
(* negative) denominator.  Floating-point rounding is outside this model.  *)
(***************************************************************************)
EXTENDS Integers, Sequences, FiniteSets, TLC

VARIABLES
    step,             \* App.tsx:45  'welcome' | 'master' | 'grading' | 'results'
    isProcessing,     \* App.tsx:46
    masterConfig,     \* App.tsx:47  null or [imageUrl, boxes, correctAnswers]
    gradingResults,   \* App.tsx:48  sequence of GradingResult
    errorMessage,     \* App.tsx:49  null or a message
    apiKey,           \* process.env.API_KEY is set and non-empty (App.tsx:59)
    showApiKeyInput,  \* App.tsx:52
    canvas,           \* the hidden <canvas> (App.tsx:55, 462): its bitmap
    master,           \* the handleMasterUpload call in flight, if any
    uploads,          \* the handleStudentUpload calls in flight, by slot
    resultsOrigin,    \* history: for each entry of gradingResults, the sheet graded
    probe             \* evaluator harness: one checkInkDensity call

vars == << step, isProcessing, masterConfig, gradingResults, errorMessage,
           apiKey, showApiKeyInput, canvas, master, uploads, resultsOrigin, probe >>

appVars == << step, isProcessing, masterConfig, gradingResults, errorMessage,
              apiKey, showApiKeyInput, master, uploads, resultsOrigin >>

-----------------------------------------------------------------------------
(* JavaScript values that may be null.                                     *)

null == [type |-> "null"]

Str(s) == [type |-> "string", value |-> s]

\* a === b on values built with null / Str
StrictEq(a, b) ==
    /\ a.type = b.type
    /\ (a.type = "string" => a.value = b.value)

-----------------------------------------------------------------------------
(* Rasters.  An image is a background colour and a list of filled          *)
(* rectangles (later ones on top); a colour is <<r, g, b>>.  A pixel       *)
(* outside the bitmap reads as transparent black, <<0, 0, 0>> (alpha is    *)
(* not read by the evaluator).                                             *)

White == << 255, 255, 255 >>
Black == << 0, 0, 0 >>
Pen   == << 20, 30, 160 >>       \* blue ink, mean 70
Grey159 == << 159, 159, 159 >>   \* just below the brightness cut
Grey160 == << 160, 160, 160 >>   \* exactly on the brightness cut

Rect(x0, y0, x1, y1, c) == [x0 |-> x0, y0 |-> y0, x1 |-> x1, y1 |-> y1, rgb |-> c]

Image(w, h, bg, strokes) == [width |-> w, height |-> h, bg |-> bg, strokes |-> strokes]

\* the bitmap of a freshly created canvas element: 300 x 150, transparent black
BlankCanvas == Image(300, 150, Black, << >>)

InStroke(s, px, py) == s.x0 <= px /\ px < s.x1 /\ s.y0 <= py /\ py < s.y1

\* the colour of pixel (px, py) of bitmap cv, as getImageData reads it
PixelAt(cv, px, py) ==
    IF px < 0 \/ py < 0 \/ px >= cv.width \/ py >= cv.height
    THEN Black
    ELSE LET hit == { k \in 1..Len(cv.strokes) : InStroke(cv.strokes[k], px, py) }
         IN  IF hit = {} THEN cv.bg
             ELSE cv.strokes[CHOOSE k \in hit : \A j \in hit : j <= k].rgb

-----------------------------------------------------------------------------
(* checkInkDensity, src/services/imageProcessor.ts:108-127                 *)

DarkBrightness == 160

\* conversion of the real n/d (d > 0) to a WebIDL long: truncation toward zero
Trunc(n, d) == IF n >= 0 THEN n \div d ELSE -((-n) \div d)

\* a density: the exact quotient dark / (0.36 * area / 10000), where area is
\* box.w * cw * box.h * ch (percent^2 * pixel^2); or the literal 0 of the catch
\* branch (thrown), which is 0 / (0.36 * 10000 / 10000)
Density(dark, area, thrown) == [dark |-> dark, area |-> area, thrown |-> thrown]

\* CanvasRenderingContext2D.getImageData(sx, sy, sw, sh) with the arguments given
\* in thousandths: "throws" when sw or sh converts to 0 (IndexSizeError), else the
\* set of pixel positions of the source rectangle, whose corners are (sx, sy) and
\* (sx+sw, sy+sh) whatever the signs of sw and sh.
ImageWindow(sx1000, sy1000, sw1000, sh1000) ==
    LET sx == Trunc(sx1000, 1000)
        sy == Trunc(sy1000, 1000)
        sw == Trunc(sw1000, 1000)
        sh == Trunc(sh1000, 1000)
        xs == IF sw > 0 THEN sx .. (sx + sw - 1) ELSE (sx + sw) .. (sx - 1)
        ys == IF sh > 0 THEN sy .. (sy + sh - 1) ELSE (sy + sh) .. (sy - 1)
    IN  [throws |-> (sw = 0 \/ sh = 0),
         pixels |-> IF sw = 0 \/ sh = 0 THEN {} ELSE xs \X ys]

\* brightness = (r + g + b) / 3 < 160
IsDark(rgb) == rgb[1] + rgb[2] + rgb[3] < 3 * DarkBrightness

checkInkDensity(cv, box) ==
    LET cw == cv.width
        ch == cv.height
        \* x = box.x/100*cw, ... in thousandths of a pixel
        x1000 == 10 * box.x * cw
        y1000 == 10 * box.y * ch
        w1000 == 10 * box.w * cw
        h1000 == 10 * box.h * ch
        \* x+(w*0.2), y+(h*0.2), w*0.6, h*0.6 in thousandths (w1000 is a multiple of 10)
        win == ImageWindow(x1000 + (2 * w1000) \div 10, y1000 + (2 * h1000) \div 10,
                           (6 * w1000) \div 10, (6 * h1000) \div 10)
        darkPixels == Cardinality({ p \in win.pixels : IsDark(PixelAt(cv, p[1], p[2])) })
    IN  IF win.throws
        THEN Density(0, 10000, TRUE)
        \* darkPixels / (w*0.6 * h*0.6)
        ELSE Density(darkPixels, box.w * cw * box.h * ch, FALSE)

\* Comparisons of a density d = dark * 10^6 / (36 * area) with a constant.  For
\* integers a, b and c > 0, a > b/c exactly when a > b \div c; a count of dark
\* pixels is never negative, so a density over a negative area is never above 0.

\* (k * a) \div c for a >= 0, without forming the product k * a
ScaleDown(k, a, c) == k * (a \div c) + (k * (a % c)) \div c

\* d > pct / 100
DensityGT(d, pct) == d.area > 0 /\ d.dark > ScaleDown(9 * pct, d.area, 25000000)

\* d > 1
DensityAboveOne(d) == d.area > 0 /\ d.dark > ScaleDown(9, d.area, 250000)

\* d < 0
DensityNegative(d) == d.dark > 0 /\ d.area < 0

\* d = 0 (or -0)
DensityZero(d) == d.dark = 0

-----------------------------------------------------------------------------
(* Property keys.  A JavaScript object keyed by question number holds the  *)
(* keys as decimal strings; Object.entries lists integer keys in ascending *)
(* numeric order and App.tsx:143 reads them back with parseInt.  Question  *)
(* numbers are naturals here, so parseInt's NaN branch does not arise.     *)

Digits == << "0", "1", "2", "3", "4", "5", "6", "7", "8", "9" >>

RECURSIVE NumToStr(_)
NumToStr(n) ==
    IF n < 10 THEN << Digits[n + 1] >>
    ELSE NumToStr(n \div 10) \o << Digits[(n % 10) + 1] >>

DigitValue(c) == (CHOOSE k \in 1..10 : Digits[k] = c) - 1

IsDigit(c) == \E k \in 1..10 : Digits[k] = c

\* parseInt(s): the value of the longest prefix of decimal digits
RECURSIVE ParseDigits(_, _)
ParseDigits(s, acc) ==
    IF s = << >> \/ ~IsDigit(Head(s)) THEN acc
    ELSE ParseDigits(Tail(s), 10 * acc + DigitValue(Head(s)))

parseInt(s) == ParseDigits(s, 0)

\* s sorts before t as a string of digits
RECURSIVE StrLess(_, _)
StrLess(s, t) ==
    IF t = << >> THEN FALSE
    ELSE IF s = << >> THEN TRUE
    ELSE IF Head(s) # Head(t) THEN DigitValue(Head(s)) < DigitValue(Head(t))
    ELSE StrLess(Tail(s), Tail(t))

\* keys listed in the order of their strings: "10" before "2"
RECURSIVE Ascending_ByString(_)
Ascending_ByString(S) ==
    IF S = {} THEN << >>
    ELSE LET m == CHOOSE a \in S :
                     \A b \in S : a = b \/ StrLess(NumToStr(a), NumToStr(b))
         IN  << m >> \o Ascending_ByString(S \ {m})

RECURSIVE Ascending(_)
Ascending(S) ==
    IF S = {} THEN << >>
    ELSE LET m == CHOOSE a \in S : \A b \in S : a <= b
         IN  << m >> \o Ascending(S \ {m})

\* Object.entries(obj) for obj keyed by naturals: << key string, value >> pairs
ObjectEntries(obj) ==
    LET keys == Ascending(DOMAIN obj)
    IN  [k \in 1..Len(keys) |-> << NumToStr(keys[k]), obj[keys[k]] >>]

-----------------------------------------------------------------------------
(* analyzeMasterSheet, src/services/imageProcessor.ts:75-98: from the      *)
(* parsed layout response to the catalog.                                   *)

\* boxes = data.boxes.map((b, i) => ({ id: `box-${i}`, ...b }))
CatalogBoxes(dataBoxes) ==
    [k \in 1..Len(dataBoxes) |->
        [id |-> k - 1,
         questionNumber |-> dataBoxes[k].questionNumber,
         optionLabel |-> dataBoxes[k].optionLabel,
         x |-> dataBoxes[k].x, y |-> dataBoxes[k].y,
         w |-> dataBoxes[k].w, h |-> dataBoxes[k].h,
         isMarked |-> dataBoxes[k].isMarked]]

\* a key that keeps the first flagged box of a question
RECURSIVE CorrectAnswers_FirstWins(_, _)
CorrectAnswers_FirstWins(dataBoxes, acc) ==
    IF dataBoxes = << >> THEN acc
    ELSE LET b == Head(dataBoxes)
             next == IF b.isMarked /\ b.questionNumber \notin DOMAIN acc
                     THEN [q \in DOMAIN acc \cup {b.questionNumber} |->
                              IF q = b.questionNumber THEN b.optionLabel ELSE acc[q]]
                     ELSE acc
         IN  CorrectAnswers_FirstWins(Tail(dataBoxes), next)

\* forEach(b => { if (b.isMarked === true) correctAnswers[b.questionNumber] = b.optionLabel })
RECURSIVE CorrectAnswers(_, _)
CorrectAnswers(dataBoxes, acc) ==
    IF dataBoxes = << >> THEN acc
    ELSE LET b == Head(dataBoxes)
             next == IF b.isMarked
                     THEN [q \in DOMAIN acc \cup {b.questionNumber} |->
                              IF q = b.questionNumber THEN b.optionLabel ELSE acc[q]]
                     ELSE acc
         IN  CorrectAnswers(Tail(dataBoxes), next)

EmptyObject == [q \in {} |-> ""]

\* the value analyzeMasterSheet resolves with, for a response that parsed
analyzeMasterSheet(dataBoxes) ==
    [boxes |-> CatalogBoxes(dataBoxes),
     correctAnswers |-> CorrectAnswers(dataBoxes, EmptyObject)]

-----------------------------------------------------------------------------
(* The body of img.onload, src/App.tsx:131-166                              *)

MarkThresholdPct == 8

\* a threshold that is met by a density equal to it: density >= 0.08
IsMark_Inclusive(density) ==
    density.area > 0 /\ density.dark * 3125000 >= 9 * density.area

\* App.tsx:137  density > 0.08
IsMark(density) == DensityGT(density, MarkThresholdPct)

\* App.tsx:131-140: studentAnswers after the forEach over masterConfig.boxes
RECURSIVE StudentAnswers(_, _, _)
StudentAnswers(cv, boxes, acc) ==
    IF boxes = << >> THEN acc
    ELSE LET box == Head(boxes)
             q == box.questionNumber
             density == checkInkDensity(cv, box)
             had == IF q \in DOMAIN acc THEN acc[q] ELSE << >>
             now == IF IsMark(density)
                    THEN Append(had, [label |-> box.optionLabel, density |-> density])
                    ELSE had
         IN  StudentAnswers(cv, Tail(boxes),
                            [p \in DOMAIN acc \cup {q} |-> IF p = q THEN now ELSE acc[p]])

\* a resolver that guesses: the first mark wins
ResolveAnswer_FirstMark(marks) == IF Len(marks) >= 1 THEN Str(marks[1].label) ELSE null

\* App.tsx:145  marks.length === 1 ? marks[0].label : null
ResolveAnswer(marks) == IF Len(marks) = 1 THEN Str(marks[1].label) ELSE null

\* a warning only from the third mark on
ResolveWarning_OffByOne(marks) == Len(marks) > 2

\* App.tsx:146  marks.length > 1
ResolveWarning(marks) == Len(marks) > 1

\* App.tsx:142-156
Details(cv, cfg) ==
    LET studentAnswers == StudentAnswers(cv, cfg.boxes, [q \in {} |-> << >>])
        entries == ObjectEntries(cfg.correctAnswers)
    IN  [k \in 1..Len(entries) |->
            LET qNum == parseInt(entries[k][1])
                marks == IF qNum \in DOMAIN studentAnswers THEN studentAnswers[qNum] ELSE << >>
                studentAns == ResolveAnswer(marks)
                correctStr == entries[k][2]
            IN  [question |-> qNum,
                 studentAnswer |-> studentAns,
                 correctAnswer |-> correctStr,
                 isCorrect |-> StrictEq(studentAns, Str(correctStr)),
                 isWarning |-> ResolveWarning(marks)]]

\* a score that counts every answered question
Score_CountAnswered(details) ==
    Cardinality({ k \in 1..Len(details) : details[k].studentAnswer # null })

\* App.tsx:158  details.filter(d => d.isCorrect).length
Score(details) == Cardinality({ k \in 1..Len(details) : details[k].isCorrect })

\* a report pushed from inside the loop over the key, after its first question
GradingResult_Partial(cv, cfg, rnd, t) ==
    LET details == Details(cv, cfg)
        first == SubSeq(details, 1, IF Len(details) > 1 THEN 1 ELSE Len(details))
    IN  [studentId |-> << "STU-", rnd >>,
         score |-> Score(first),
         total |-> Len(details),
         details |-> first,
         timestamp |-> t]

\* App.tsx:160-166: the GradingResult pushed for the bitmap cv; rnd is
\* Math.floor(1000 + Math.random() * 9000) and t is Date.now()
GradingResult(cv, cfg, rnd, t) ==
    LET details == Details(cv, cfg)
    IN  [studentId |-> << "STU-", rnd >>,
         score |-> Score(details),
         total |-> Len(details),
         details |-> details,
         timestamp |-> t]

-----------------------------------------------------------------------------
(* Inputs: layout responses, sheet photographs, files.                     *)

\* files chosen in one run, over all its uploads
MaxFiles == 3
\* handleStudentUpload calls in one run
MaxUploads == 2

\* photographs are 20 x 20 pixels
SheetSize == << 20, 20 >>

\* option boxes of the printed sheet, in percent: three columns, two rows,
\* each box 30% x 30%
BoxSize == << 30, 30 >>
ColumnX == << 5, 35, 65 >>
RowY == << 10, 60 >>
Labels == << "A", "B", "C" >>

DataBox(q, o, marked) ==
    [questionNumber |-> q, optionLabel |-> Labels[o],
     x |-> ColumnX[o], y |-> RowY[q], w |-> BoxSize[1], h |-> BoxSize[2],
     isMarked |-> marked]

\* data.boxes of a response: every box of questions 1 and 2, and the marked ones
Layout(marked) ==
    [k \in 1..6 |->
        LET q == ((k - 1) \div 3) + 1
            o == ((k - 1) % 3) + 1
        IN  DataBox(q, o, << q, o >> \in marked)]

\* key {1: A, 2: C}; key {1: B} with no mark found for question 2
Responses ==
    { Layout({ << 1, 1 >>, << 2, 3 >> }),
      Layout({ << 1, 2 >> }) }

\* what a student left in one option box
Fills == { "blank", "dot", "cross" }

\* the strokes of one option box: a cross covers the box, a dot is one pixel
\* in the middle of it
CellStrokes(q, o, fill) ==
    LET px == (ColumnX[o] * SheetSize[1]) \div 100
        py == (RowY[q] * SheetSize[2]) \div 100
        pw == (BoxSize[1] * SheetSize[1]) \div 100
        ph == (BoxSize[2] * SheetSize[2]) \div 100
    IN  IF fill = "cross" THEN << Rect(px, py, px + pw, py + ph, Pen) >>
        ELSE IF fill = "dot"
        THEN << Rect(px + pw \div 2, py + ph \div 2, px + pw \div 2 + 1, py + ph \div 2 + 1, Black) >>
        ELSE << >>

RECURSIVE SheetStrokes(_, _)
SheetStrokes(fills, k) ==
    IF k > 6 THEN << >>
    ELSE CellStrokes(((k - 1) \div 3) + 1, ((k - 1) % 3) + 1, fills[k])
         \o SheetStrokes(fills, k + 1)

\* the photograph of a sheet filled as fills (a 6-tuple, question 1 first)
Sheet(fills) == Image(SheetSize[1], SheetSize[2], White, SheetStrokes(fills, 1))

AllSheets == { Sheet(f) : f \in [1..6 -> Fills] }

\* question 1: A; question 2: B and C
SheetA == Sheet(<< "cross", "blank", "blank", "blank", "cross", "cross" >>)
\* question 1: nothing; question 2: C, and a stray dot in A
SheetB == Sheet(<< "blank", "blank", "blank", "dot", "blank", "cross" >>)

\* what a chosen file turns out to be: FileReader fails on it; it is read but
\* the browser cannot decode it; or it is the photograph of a sheet
FileKinds == { "unreadable", "undecodable", "image" }

UploadSheets == { SheetA, SheetB }

\* one run of lines 161 and 165: Math.floor(1000 + Math.random() * 9000) and
\* Date.now().  Two draws may agree or differ.
Draws == { [rnd |-> 1000, now |-> 0], [rnd |-> 9999, now |-> 1] }

\* what onload finds: canvasRef.current and canvas.getContext('2d')
CanvasStates == { "ok", "noCanvas", "noContext" }

-----------------------------------------------------------------------------
(* State.                                                                  *)

Slots == 1..MaxUploads

\* a handleStudentUpload call: pc is "unused" before the call, "reading" while
\* fileToBase64(files[i]) is awaited, "decoding" while img.onload is awaited and
\* will fire, "stalled" while it is awaited and never fires, "rejected" once the
\* call has thrown, "done" once it has returned.  n is files.length, cfg the
\* masterConfig of the render whose handler was called.  What files[i] holds is
\* drawn when the call gets to see it.  Of a call that has ended only n is
\* kept.
NoUpload ==
    [pc |-> "unused", n |-> 0, i |-> 0, cfg |-> null,
     newResults |-> << >>, newOrigin |-> << >>]

Ended(pc, n) == [NoUpload EXCEPT !.pc = pc, !.n = n]

\* the files chosen so far, over uploads 1..u
RECURSIVE FilesChosen(_)
FilesChosen(u) == IF u = 0 THEN 0 ELSE uploads[u].n + FilesChosen(u - 1)

NoMaster == [pc |-> "idle"]

NoProbe == [pc |-> "none"]

TypeOK ==
    /\ step \in { "welcome", "master", "grading", "results" }
    /\ isProcessing \in BOOLEAN
    /\ apiKey \in BOOLEAN
    /\ showApiKeyInput \in BOOLEAN
    /\ master.pc \in { "idle", "reading", "analyzing" }
    /\ \A u \in Slots :
          /\ uploads[u].pc \in { "unused", "reading", "decoding", "stalled",
                                 "rejected", "done" }
                    /\ Len(uploads[u].newResults) = Len(uploads[u].newOrigin)
    /\ Len(gradingResults) = Len(resultsOrigin)

Init ==
    /\ step = "welcome"
    /\ isProcessing = FALSE
    /\ masterConfig = null
    /\ gradingResults = << >>
    /\ errorMessage = null
    /\ apiKey \in BOOLEAN
    \* App.tsx:58-62: the mount effect opens the key dialog when no key is set
    /\ showApiKeyInput = ~apiKey
    /\ canvas = BlankCanvas
    /\ master = NoMaster
    /\ uploads = [u \in Slots |-> NoUpload]
    /\ resultsOrigin = << >>
    /\ probe = NoProbe

-----------------------------------------------------------------------------
(* App.tsx:64-72  handleSaveApiKey; the dialog is rendered while            *)
(* showApiKeyInput (App.tsx:189)                                            *)

handleSaveApiKey(keyTyped) ==
    /\ showApiKeyInput
    /\ IF keyTyped
       THEN /\ apiKey' = TRUE
            /\ showApiKeyInput' = FALSE
            /\ errorMessage' = null
       ELSE /\ errorMessage' = Str("api key required")
            /\ UNCHANGED << apiKey, showApiKeyInput >>
    /\ UNCHANGED << step, isProcessing, masterConfig, gradingResults, canvas,
                    master, uploads, resultsOrigin, probe >>

(* App.tsx:75-103  handleMasterUpload.  Its input is rendered on the       *)
(* welcome screen (App.tsx:256, 278).  One call is followed at a time.     *)

\* lines 76-88, up to the first await
MasterStart ==
    /\ step = "welcome"
    /\ master.pc = "idle"
    /\ IF ~apiKey
       THEN /\ showApiKeyInput' = TRUE
            /\ UNCHANGED << isProcessing, errorMessage, master >>
       ELSE /\ isProcessing' = TRUE
            /\ errorMessage' = null
            /\ master' = [pc |-> "reading"]
            /\ UNCHANGED showApiKeyInput
    /\ UNCHANGED << step, masterConfig, gradingResults, apiKey, canvas, uploads,
                    resultsOrigin, probe >>

\* line 88 resumes: fileToBase64 resolved and analyzeMasterSheet is called
\* (line 89); or it rejected: catch (97-99) and finally (100-102)
MasterRead(readable) ==
    /\ master.pc = "reading"
    /\ IF readable
       THEN /\ master' = [pc |-> "analyzing"]
            /\ UNCHANGED << isProcessing, errorMessage >>
       ELSE /\ master' = NoMaster
            /\ errorMessage' = Str("analysis failed")
            /\ isProcessing' = FALSE
    /\ UNCHANGED << step, masterConfig, gradingResults, apiKey, showApiKeyInput,
                    canvas, uploads, resultsOrigin, probe >>

\* line 89 resumes with the catalog (lines 91-96, then finally)
MasterAnalyzed(dataBoxes) ==
    /\ master.pc = "analyzing"
    /\ LET result == analyzeMasterSheet(dataBoxes)
       IN  masterConfig' = [imageUrl |-> "master", boxes |-> result.boxes,
                            correctAnswers |-> result.correctAnswers]
    /\ step' = "grading"
    /\ isProcessing' = FALSE
    /\ master' = NoMaster
    /\ UNCHANGED << gradingResults, errorMessage, apiKey, showApiKeyInput, canvas,
                    uploads, resultsOrigin, probe >>

\* a handler whose setIsProcessing(false) sits at the end of the try block, with
\* no finally: a throw leaves the spinner on
MasterFailed_NoFinally ==
    /\ master.pc = "analyzing"
    /\ errorMessage' = Str("analysis failed")
    /\ master' = NoMaster
    /\ UNCHANGED << step, isProcessing, masterConfig, gradingResults, apiKey,
                    showApiKeyInput, canvas, uploads, resultsOrigin, probe >>

\* line 89 throws (no response text, unparsable JSON, no boxes array, quota):
\* catch (97-99), then finally
MasterFailed ==
    /\ master.pc = "analyzing"
    /\ errorMessage' = Str("analysis failed")
    /\ isProcessing' = FALSE
    /\ master' = NoMaster
    /\ UNCHANGED << step, masterConfig, gradingResults, apiKey, showApiKeyInput,
                    canvas, uploads, resultsOrigin, probe >>

\* App.tsx:446  the close button of the error notification
dismissError ==
    /\ errorMessage # null
    /\ errorMessage' = null
    /\ UNCHANGED << step, isProcessing, masterConfig, gradingResults, apiKey,
                    showApiKeyInput, canvas, master, uploads, resultsOrigin, probe >>

-----------------------------------------------------------------------------
(* App.tsx:106-175  handleStudentUpload.  Its input is rendered on the      *)
(* grading screen, while masterConfig is set (App.tsx:289, 328).            *)

\* lines 127-129: canvas.width / height are set (which clears the bitmap to
\* transparent black) and the decoded image is drawn at (0, 0) in its own size
\* drawing without the canvas having been cleared, the paper of the photograph
\* not covering what the canvas held: the earlier strokes show through
drawImage_Overlay(cv, img) ==
    Image(img.width, img.height, img.bg, cv.strokes \o img.strokes)

drawImage(cv, img) == Image(img.width, img.height, img.bg, img.strokes)

\* sampling before drawing: the bitmap left by the sheet graded before
SampledBitmap_Stale(cv, img) == cv

\* the bitmap that lines 131-140 sample, given the canvas as onload found it
SampledBitmap(cv, img) == drawImage(cv, img)

\* a handler that reads the catalog of the latest render, not of its own
GradingCatalog_Live(up) == IF masterConfig # null THEN masterConfig ELSE up.cfg

\* lines 133 and 142: masterConfig inside handleStudentUpload is the constant of
\* the render whose handler was called, for the whole call
GradingCatalog(up) == up.cfg

Origin(u, i, img, cfg) == [upload |-> u, index |-> i, image |-> img, cfg |-> cfg]

\* publishing in front of the earlier reports: [...newResults, ...prev]
PublishResults_Prepend(newResults, newOrigin) ==
    /\ gradingResults' = newResults \o gradingResults
    /\ resultsOrigin' = newOrigin \o resultsOrigin
    /\ isProcessing' = FALSE
    /\ step' = "results"

\* lines 172-174
PublishResults(newResults, newOrigin) ==
    /\ gradingResults' = gradingResults \o newResults
    /\ resultsOrigin' = resultsOrigin \o newOrigin
    /\ isProcessing' = FALSE
    /\ step' = "results"

\* lines 107-115, up to the first await; n is files.length
UploadStart(u, n) ==
    /\ step = "grading"
    /\ masterConfig # null
    /\ uploads[u].pc = "unused"
    /\ \A v \in Slots : v < u => uploads[v].pc # "unused"
    /\ FilesChosen(MaxUploads) + n <= MaxFiles
    /\ IF n = 0
       THEN /\ PublishResults(<< >>, << >>)
            /\ uploads' = [uploads EXCEPT ![u] = Ended("done", 0)]
       ELSE /\ isProcessing' = TRUE
            /\ uploads' = [uploads EXCEPT ![u] =
                              [NoUpload EXCEPT !.pc = "reading", !.n = n,
                                               !.cfg = masterConfig]]
            /\ UNCHANGED << step, gradingResults, resultsOrigin >>
    /\ UNCHANGED << masterConfig, errorMessage, apiKey, showApiKeyInput, canvas,
                    master, probe >>

\* line 115 resumes: FileReader failed and the call ends with an uncaught
\* rejection; or the file was read and img.src is set (116-119), to an image
\* that will decode or to one that never will (onload never fires)
UploadRead(u, kind) ==
    /\ uploads[u].pc = "reading"
    /\ uploads' = [uploads EXCEPT ![u] =
                      IF kind = "unreadable" THEN Ended("rejected", uploads[u].n)
                      ELSE [@ EXCEPT !.pc = IF kind = "image" THEN "decoding"
                                            ELSE "stalled"]]
    /\ UNCHANGED << step, isProcessing, masterConfig, gradingResults, errorMessage,
                    apiKey, showApiKeyInput, canvas, master, resultsOrigin, probe >>

\* img.onload (lines 120-168) for the decoded image img, and what the call does
\* once the promise is resolved: the next turn of the loop up to its await
\* (113-115), or lines 172-174
UploadOnLoad(u, img, found, draw) ==
    /\ uploads[u].pc = "decoding"
    /\ LET up == uploads[u]
           bitmap == SampledBitmap(canvas, img)
           graded == found = "ok"
           newResults == IF graded
                         THEN Append(up.newResults,
                                     GradingResult(bitmap, GradingCatalog(up), draw.rnd, draw.now))
                         ELSE up.newResults
           newOrigin == IF graded
                        THEN Append(up.newOrigin, Origin(u, up.i, img, up.cfg))
                        ELSE up.newOrigin
       IN  /\ canvas' = IF graded THEN drawImage(canvas, img) ELSE canvas
           /\ IF up.i + 1 < up.n
              THEN /\ uploads' = [uploads EXCEPT ![u] =
                                     [up EXCEPT !.pc = "reading", !.i = up.i + 1,
                                                !.newResults = newResults,
                                                !.newOrigin = newOrigin]]
                   /\ UNCHANGED << step, isProcessing, gradingResults, resultsOrigin >>
              ELSE /\ PublishResults(newResults, newOrigin)
                   /\ uploads' = [uploads EXCEPT ![u] = Ended("done", up.n)]
    /\ UNCHANGED << masterConfig, errorMessage, apiKey, showApiKeyInput, master, probe >>

\* App.tsx:177-181  resetSystem; its buttons are on the grading screen
\* (App.tsx:299) and on the results screen (App.tsx:350)
resetSystem ==
    /\ (step = "grading" /\ masterConfig # null) \/ step = "results"
    /\ masterConfig' = null
    /\ gradingResults' = << >>
    /\ resultsOrigin' = << >>
    /\ step' = "welcome"
    /\ UNCHANGED << isProcessing, errorMessage, apiKey, showApiKeyInput, canvas,
                    master, uploads, probe >>

Next ==
    \/ \E keyTyped \in BOOLEAN : handleSaveApiKey(keyTyped)
    \/ dismissError
    \/ MasterStart
    \/ \E readable \in BOOLEAN : MasterRead(readable)
    \/ \E dataBoxes \in Responses : MasterAnalyzed(dataBoxes)
    \/ MasterFailed
    \/ \E u \in Slots, n \in 0..MaxFiles : UploadStart(u, n)
    \/ \E u \in Slots, kind \in FileKinds : UploadRead(u, kind)
    \/ \E u \in Slots, img \in UploadSheets, found \in CanvasStates, draw \in Draws :
          UploadOnLoad(u, img, found, draw)
    \/ resetSystem

Spec == Init /\ [][Next]_vars

-----------------------------------------------------------------------------
(* The grading screen alone: a catalog is loaded and only uploads happen.  *)

Catalog(dataBoxes) ==
    LET result == analyzeMasterSheet(dataBoxes)
    IN  [imageUrl |-> "master", boxes |-> result.boxes,
         correctAnswers |-> result.correctAnswers]

InitUploads ==
    /\ step = "grading"
    /\ isProcessing = FALSE
    /\ masterConfig \in { Catalog(d) : d \in Responses }
    /\ gradingResults = << >>
    /\ errorMessage = null
    /\ apiKey = TRUE
    /\ showApiKeyInput = FALSE
    /\ canvas = BlankCanvas
    /\ master = NoMaster
    /\ uploads = [u \in Slots |-> NoUpload]
    /\ resultsOrigin = << >>
    /\ probe = NoProbe

NextUploads ==
    \/ \E u \in Slots, n \in 0..MaxFiles : UploadStart(u, n)
    \/ \E u \in Slots, kind \in FileKinds : UploadRead(u, kind)
    \/ \E u \in Slots, img \in UploadSheets, found \in CanvasStates, draw \in Draws :
          UploadOnLoad(u, img, found, draw)

SpecUploads == InitUploads /\ [][NextUploads]_vars

\* The browser delivers every FileReader result and the load event of every
\* image that decodes.  A step of UploadOnLoad(u, ...) is possible exactly while
\* upload u is decoding and always leaves that state, so weak fairness of it,
\* WF_vars(\E img, found, draw : UploadOnLoad(u, img, found, draw)), is the same
\* condition as []<>(uploads[u].pc # "decoding"), written here in that form.
FairUploads ==
    /\ SpecUploads
    /\ \A u \in Slots :
          /\ WF_vars(\E kind \in FileKinds : UploadRead(u, kind))
          /\ []<>(uploads[u].pc # "decoding")

-----------------------------------------------------------------------------
(* One sheet: a call with one file has been started on the grading screen, *)
(* after any earlier use of the canvas; the sheet may be filled in any way *)
(* and the key may have two boxes of question 1 marked.                    *)

SheetResponses == Responses \cup { Layout({ << 1, 1 >>, << 1, 3 >>, << 2, 2 >> }) }

InitSheet ==
    /\ step = "grading"
    /\ isProcessing = TRUE
    /\ masterConfig \in { Catalog(d) : d \in SheetResponses }
    /\ gradingResults = << >>
    /\ errorMessage = null
    /\ apiKey = TRUE
    /\ showApiKeyInput = FALSE
    /\ canvas \in { BlankCanvas } \cup UploadSheets
    /\ master = NoMaster
    /\ uploads = [u \in Slots |->
                    IF u = 1
                    THEN [NoUpload EXCEPT !.pc = "reading", !.n = 1, !.cfg = masterConfig]
                    ELSE NoUpload]
    /\ resultsOrigin = << >>
    /\ probe = NoProbe

NextSheet ==
    \/ \E kind \in FileKinds : UploadRead(1, kind)
    \/ \E img \in AllSheets, found \in CanvasStates, draw \in Draws :
          UploadOnLoad(1, img, found, draw)

SpecSheet == InitSheet /\ [][NextSheet]_vars

-----------------------------------------------------------------------------
(* The evaluator alone: one call of checkInkDensity on the canvas, for a   *)
(* box of any geometry.                                                    *)

ProbeImages ==
    { Sheet(<< "blank", "blank", "blank", "blank", "blank", "blank" >>),
      SheetA,
      Image(SheetSize[1], SheetSize[2], Grey159, << >>),
      Image(SheetSize[1], SheetSize[2], Grey160, << >>) }

ProbeBox(x, y, w, h) ==
    [id |-> 0, questionNumber |-> 1, optionLabel |-> "A",
     x |-> x, y |-> y, w |-> w, h |-> h, isMarked |-> FALSE]

\* in percent: inside, on the edge, partly and fully outside the image;
\* negative, zero, sub-pixel (2% of 20 pixels) and ordinary sizes
ProbeBoxes ==
    { ProbeBox(x, y, w, h) : x \in { -40, 0, 35, 90, 110 }, y \in { 0, 35, 110 },
                             w \in { -30, 0, 2, 30, 100 }, h \in { -30, 0, 2, 30 } }

InitDensity ==
    /\ step = "grading"
    /\ isProcessing = TRUE
    /\ masterConfig \in { Catalog(d) : d \in Responses }
    /\ gradingResults = << >>
    /\ errorMessage = null
    /\ apiKey = TRUE
    /\ showApiKeyInput = FALSE
    /\ canvas \in ProbeImages
    /\ master = NoMaster
    /\ uploads = [u \in Slots |-> NoUpload]
    /\ resultsOrigin = << >>
    /\ probe \in { [pc |-> "ready", box |-> b] : b \in ProbeBoxes }

\* App.tsx:134  checkInkDensity(ctx, box, canvas.width, canvas.height)
Evaluate ==
    /\ probe.pc = "ready"
    /\ probe' = [pc |-> "done", box |-> probe.box,
                 density |-> checkInkDensity(canvas, probe.box)]
    /\ UNCHANGED << appVars, canvas >>

SpecDensity == InitDensity /\ [][Evaluate]_vars

-----------------------------------------------------------------------------
(* Properties.                                                             *)

\* every report pushed so far, published or still in newResults, with its origin
Graded ==
    { [report |-> gradingResults[k], origin |-> resultsOrigin[k]] :
         k \in 1..Len(gradingResults) }
    \cup UNION { { [report |-> uploads[u].newResults[k], origin |-> uploads[u].newOrigin[k]] :
                      k \in 1..Len(uploads[u].newResults) } : u \in Slots }

\* the boxes of question q that bear a mark on the sheet of origin o
MarkedBoxes(o, q) ==
    { k \in 1..Len(o.cfg.boxes) :
         /\ o.cfg.boxes[k].questionNumber = q
         /\ IsMark(checkInkDensity(o.image, o.cfg.boxes[k])) }

QuestionsWithBoxes(cfg) == { cfg.boxes[k].questionNumber : k \in 1..Len(cfg.boxes) }

DetailsOf(g) == { g.report.details[k] : k \in 1..Len(g.report.details) }

\* C1: in every report, a question with no option above the threshold has no
\* student answer and no warning; with exactly one, the answer is that option's
\* label and there is no warning; with two or more, there is no answer and the
\* warning is set.
C1_ResolverPolicy ==
    \A g \in Graded : \A d \in DetailsOf(g) :
        LET m == MarkedBoxes(g.origin, d.question)
        IN  /\ Cardinality(m) = 0 => d.studentAnswer = null /\ ~d.isWarning
            /\ Cardinality(m) = 1 =>
                  /\ \E k \in m : d.studentAnswer = Str(g.origin.cfg.boxes[k].optionLabel)
                  /\ ~d.isWarning
            /\ Cardinality(m) >= 2 => d.studentAnswer = null /\ d.isWarning

\* a published report with one question answered by its single mark and another
\* question with all three options marked, flagged
C1_Witness ==
    \E k \in 1..Len(gradingResults) :
        LET g == [report |-> gradingResults[k], origin |-> resultsOrigin[k]]
        IN  /\ \E d \in DetailsOf(g) :
                  Cardinality(MarkedBoxes(g.origin, d.question)) = 3 /\ d.isWarning
            /\ \E d \in DetailsOf(g) :
                  Cardinality(MarkedBoxes(g.origin, d.question)) = 1 /\ d.studentAnswer # null

\* C2: in every report, score is the number of detail records whose student
\* answer is the key's label for that question, total is the number of detail
\* records, 0 <= score <= total, and a question that has boxes but no entry in
\* correctAnswers has no detail record.
C2_ScoreAndTotal ==
    \A g \in Graded :
        LET r == g.report
            key == g.origin.cfg.correctAnswers
        IN  /\ \A d \in DetailsOf(g) :
                  d.question \in DOMAIN key /\ d.correctAnswer = key[d.question]
            /\ r.score = Cardinality({ k \in 1..Len(r.details) :
                             r.details[k].studentAnswer = Str(key[r.details[k].question]) })
            /\ r.total = Len(r.details)
            /\ 0 <= r.score /\ r.score <= r.total
            /\ \A q \in QuestionsWithBoxes(g.origin.cfg) \ DOMAIN key :
                  \A d \in DetailsOf(g) : d.question # q

\* a published report under a key without question 2, for a sheet with a mark
\* in question 2's boxes: one detail record, counted correct
C2_Witness ==
    \E k \in 1..Len(gradingResults) :
        /\ 2 \notin DOMAIN resultsOrigin[k].cfg.correctAnswers
        /\ MarkedBoxes(resultsOrigin[k], 2) # {}
        /\ gradingResults[k].total = 1
        /\ gradingResults[k].score = 1

KeyAC == Catalog(Layout({ << 1, 1 >>, << 2, 3 >> }))

\* C3: a detail record with the warning set is never correct and carries no
\* student answer; under key {1: A, 2: C}, the sheet marked A in question 1 and
\* B and C in question 2 scores 1 of 2, question 2 incorrect with the warning.
C3_AmbiguousNeverCorrect ==
    \A g \in Graded :
        /\ \A d \in DetailsOf(g) : d.isWarning => ~d.isCorrect /\ d.studentAnswer = null
        /\ (g.origin.image = SheetA /\ g.origin.cfg = KeyAC) =>
              /\ g.report.score = 1
              /\ g.report.total = 2
              /\ g.report.details[1].isCorrect /\ ~g.report.details[1].isWarning
              /\ ~g.report.details[2].isCorrect /\ g.report.details[2].isWarning

\* the report of that sheet under that key is published, and its flagged
\* question has the key's option among its marks
C3_Witness ==
    \E k \in 1..Len(gradingResults) :
        /\ resultsOrigin[k].image = SheetA
        /\ resultsOrigin[k].cfg = KeyAC
        /\ gradingResults[k].details[2].isWarning
        /\ \E b \in MarkedBoxes(resultsOrigin[k], 2) :
              KeyAC.boxes[b].optionLabel = KeyAC.correctAnswers[2]

\* C4: in every detail record studentAnswer is a string, the empty string or an
\* option label; it is never null.
C4_AnswerIsAString ==
    \A g \in Graded : \A d \in DetailsOf(g) :
        /\ d.studentAnswer.type = "string"
        /\ d.studentAnswer.value \in { "" } \cup { Labels[o] : o \in 1..Len(Labels) }

Min(a, b) == IF a <= b THEN a ELSE b
Max(a, b) == IF a >= b THEN a ELSE b

\* the region of box (in percent of the image) has no point inside the image
FullyOutside(box) ==
    \/ Max(box.x, box.x + box.w) <= 0
    \/ Min(box.x, box.x + box.w) >= 100
    \/ Max(box.y, box.y + box.h) <= 0
    \/ Min(box.y, box.y + box.h) >= 100

\* C5: whatever the image and the region, the density checkInkDensity returns
\* is at least 0 and at most 1.
C5_DensityInUnitInterval ==
    probe.pc = "done" =>
        ~DensityNegative(probe.density) /\ ~DensityAboveOne(probe.density)

\* C6: for a region that lies fully outside the image, checkInkDensity returns 0.
C6_OutsideIsZero ==
    (probe.pc = "done" /\ FullyOutside(probe.box)) => DensityZero(probe.density)

\* C7: an upload that has started reading a file eventually returns, whatever
\* its files turn out to be (its reports are published and isProcessing is set
\* to false by the step that returns).
C7_BatchSurvivesBadSheet ==
    \A u \in Slots : (uploads[u].pc = "reading") ~> (uploads[u].pc = "done")

\* the step in which upload u returns (lines 172-174 have run)
Returns(u) == uploads[u].pc # "done" /\ uploads'[u].pc = "done"

\* C8: an upload of n files that returns (so every one of them was decoded) has
\* then added exactly n reports to gradingResults.
C8_OneReportPerImage ==
    [][\A u \in Slots :
          Returns(u) => Len(gradingResults') = Len(gradingResults) + uploads[u].n]_vars

IsPrefix(a, b) == Len(a) <= Len(b) /\ SubSeq(b, 1, Len(a)) = a

\* C9: the step in which an upload returns keeps the reports accumulated before
\* as a prefix of gradingResults, and what it adds are the reports of that
\* upload's files, each graded from its own file, in ascending file index.
C9_SubmissionOrder ==
    [][\A u \in Slots :
          Returns(u) =>
             /\ IsPrefix(gradingResults, gradingResults')
             /\ IsPrefix(resultsOrigin, resultsOrigin')
             /\ \A a \in (Len(gradingResults) + 1)..Len(gradingResults') :
                   /\ resultsOrigin'[a].upload = u
                   /\ gradingResults'[a].details =
                         Details(resultsOrigin'[a].image, resultsOrigin'[a].cfg)
                   /\ \A b \in (a + 1)..Len(gradingResults') :
                         resultsOrigin'[a].index < resultsOrigin'[b].index]_vars

\* gradingResults holds the report of one upload's file, then the reports of
\* two files of another upload, of two different sheets
C9_Witness ==
    /\ Len(gradingResults) = 3
    /\ resultsOrigin[1].upload # resultsOrigin[2].upload
    /\ resultsOrigin[2].upload = resultsOrigin[3].upload
    /\ resultsOrigin[2].index < resultsOrigin[3].index
    /\ resultsOrigin[2].image # resultsOrigin[3].image

\* C10: two reports for the same image under the same catalog have the same
\* score, total and detail records.
C10_Deterministic ==
    \A g, h \in Graded :
        (g.origin.image = h.origin.image /\ g.origin.cfg = h.origin.cfg) =>
            /\ g.report.score = h.report.score
            /\ g.report.total = h.report.total
            /\ g.report.details = h.report.details

\* the same sheet was graded twice under one catalog, once right after the other
\* sheet, with another random id and at another time
C10_Witness ==
    \E a, b \in 1..Len(gradingResults) :
        /\ a + 1 < b
        /\ resultsOrigin[a].image = resultsOrigin[b].image
        /\ resultsOrigin[a].cfg = resultsOrigin[b].cfg
        /\ resultsOrigin[a + 1].image # resultsOrigin[a].image
        /\ gradingResults[a].studentId # gradingResults[b].studentId
        /\ gradingResults[a].timestamp # gradingResults[b].timestamp

\* the report of sheet img graded alone under catalog cfg: one upload of that one
\* file, on the canvas as the page creates it
GradedAlone(img, cfg) == GradingResult(drawImage(BlankCanvas, img), cfg, 0, 0)

\* C11: the score, total and detail records reported for a sheet are those of
\* the same sheet graded alone under the same catalog, whatever sheets were
\* graded on the canvas before it, in the same upload or in another.
C11_BatchIndependence ==
    \A g \in Graded :
        LET alone == GradedAlone(g.origin.image, g.origin.cfg)
        IN  /\ g.report.score = alone.score
            /\ g.report.total = alone.total
            /\ g.report.details = alone.details

\* sheet B was graded right after sheet A in one upload, after a sheet of
\* another upload, and the two reports differ
C11_Witness ==
    /\ Len(gradingResults) = 3
    /\ resultsOrigin[1].upload # resultsOrigin[2].upload
    /\ resultsOrigin[2].upload = resultsOrigin[3].upload
    /\ resultsOrigin[2].image = SheetA
    /\ resultsOrigin[3].image = SheetB
    /\ gradingResults[2].details # gradingResults[3].details

\* report r, graded against catalog cfg, is complete: one detail record for each
\* key of correctAnswers, every record resolved, total and score agreeing with
\* the records
Complete(r, cfg) ==
    /\ Len(r.details) = Cardinality(DOMAIN cfg.correctAnswers)
    /\ \A q \in DOMAIN cfg.correctAnswers :
          Cardinality({ k \in 1..Len(r.details) : r.details[k].question = q }) = 1
    /\ \A k \in 1..Len(r.details) :
          /\ r.details[k].isWarning \in BOOLEAN
          /\ r.details[k].isCorrect =
                (r.details[k].studentAnswer = Str(r.details[k].correctAnswer))
    /\ r.total = Len(r.details)
    /\ r.score = Cardinality({ k \in 1..Len(r.details) : r.details[k].isCorrect })

\* C12: every report held in gradingResults is complete, and no step of an
\* upload, whether the upload goes on, returns, throws or stalls, alters the
\* reports already in gradingResults.
C12_NoPartialReport ==
    [][/\ \A k \in 1..Len(gradingResults') :
             Complete(gradingResults'[k], resultsOrigin'[k].cfg)
       /\ IsPrefix(gradingResults, gradingResults')]_vars

\* one upload has published a report with two detail records; the other one,
\* of two files, graded its first sheet and was abandoned at the second, or is
\* still in flight with that report pending
C12_Witness ==
    /\ Len(gradingResults) = 1
    /\ Len(gradingResults[1].details) = 2
    /\ \E u \in Slots :
          /\ uploads[u].n = 2
          /\ \/ uploads[u].pc \in { "rejected", "stalled" }
             \/ uploads[u].pc = "reading" /\ Len(uploads[u].newResults) = 1

\* upload u is between its start and its end
InFlight(u) == uploads[u].pc \in { "reading", "decoding", "stalled" }

\* C13: no step of a handleStudentUpload call changes masterConfig; a call
\* captures the catalog in force when it starts and keeps it to its end; and
\* every report it pushes is graded against that catalog, whatever resetSystem
\* and handleMasterUpload have done to masterConfig in the meantime.
C13_CatalogReadOnly ==
    [][/\ uploads' # uploads => masterConfig' = masterConfig
       /\ \A u \in Slots :
             /\ (uploads[u].pc = "unused" /\ InFlight(u)') =>
                   uploads'[u].cfg = masterConfig
             /\ (InFlight(u) /\ InFlight(u)') => uploads'[u].cfg = uploads[u].cfg
       /\ \A g \in Graded' \ Graded :
             /\ InFlight(g.origin.upload)
             /\ g.origin.cfg = uploads[g.origin.upload].cfg
             /\ g.report.details = Details(g.origin.image, uploads[g.origin.upload].cfg)]_vars

\* an upload started under one catalog has a graded sheet while masterConfig,
\* after resetSystem and a new handleMasterUpload, holds another catalog
C13_Witness ==
    /\ masterConfig # null
    /\ \E g \in Graded :
          /\ g.origin.cfg # masterConfig
          /\ g.report.details # Details(g.origin.image, masterConfig)

-----------------------------------------------------------------------------
(* Catalog loading: the whole app with one single-file upload per catalog   *)
(* at most, and layout responses of more kinds.  analyzeMasterSheet takes   *)
(* data.boxes as the service returns it (imageProcessor.ts:81-96).          *)

\* the five option labels named in the request (imageProcessor.ts:28, 59),
\* written A..E here
OptionAlphabet == { "A", "B", "C", "D", "E" }

\* data.boxes with the boxes of the sheet's two rows in response order: rows[r]
\* is <<question number, labels of the three boxes>> for the r-th row listed,
\* printed in row rowOf[r] of the sheet; marked holds <<r, o>> for isMarked
LayoutOf(rows, rowOf, marked) ==
    [k \in 1..6 |->
        LET r == ((k - 1) \div 3) + 1
            o == ((k - 1) % 3) + 1
        IN  [questionNumber |-> rows[r][1], optionLabel |-> rows[r][2][o],
             x |-> ColumnX[o], y |-> RowY[rowOf[r]],
             w |-> BoxSize[1], h |-> BoxSize[2],
             isMarked |-> << r, o >> \in marked]]

\* question 1 has boxes A and C both flagged isMarked
DoubleMarked == Layout({ << 1, 1 >>, << 1, 3 >>, << 2, 2 >> })

\* question 10 (second row of the sheet) listed before question 2 (first row)
TenBeforeTwo ==
    LayoutOf(<< << 10, Labels >>, << 2, Labels >> >>, << 2, 1 >>,
             { << 1, 2 >>, << 2, 1 >> })

\* the third box of question 1 carries a label that is no option label
StrangeLabel ==
    LayoutOf(<< << 1, << "A", "B", "Z" >> >>, << 2, Labels >> >>, << 1, 2 >>,
             { << 1, 3 >>, << 2, 3 >> })

\* two boxes of question 1 carry the label A
TwiceA ==
    LayoutOf(<< << 1, << "A", "A", "C" >> >>, << 2, Labels >> >>, << 1, 2 >>,
             { << 1, 2 >>, << 2, 3 >> })

MasterResponses == Responses \cup { DoubleMarked, TenBeforeTwo, StrangeLabel, TwiceA }

NextMaster ==
    \/ \E keyTyped \in BOOLEAN : handleSaveApiKey(keyTyped)
    \/ dismissError
    \/ MasterStart
    \/ \E readable \in BOOLEAN : MasterRead(readable)
    \/ \E dataBoxes \in MasterResponses : MasterAnalyzed(dataBoxes)
    \/ MasterFailed
    \/ \E u \in Slots, n \in 0..1 : UploadStart(u, n)
    \/ \E u \in Slots, kind \in FileKinds : UploadRead(u, kind)
    \/ \E u \in Slots, img \in UploadSheets, found \in CanvasStates, draw \in Draws :
          UploadOnLoad(u, img, found, draw)
    \/ resetSystem

SpecMaster == Init /\ [][NextMaster]_vars

\* boxes is a well-formed catalog: every box has its geometry, every label is an
\* option label and no question has two boxes with one label
WellFormed(boxes) ==
    \A k \in 1..Len(boxes) :
        /\ { "x", "y", "w", "h" } \subseteq DOMAIN boxes[k]
        /\ boxes[k].optionLabel \in OptionAlphabet
        /\ \A j \in 1..Len(boxes) :
              (j # k /\ boxes[j].questionNumber = boxes[k].questionNumber) =>
                  boxes[j].optionLabel # boxes[k].optionLabel

\* C14: a malformed layout response never becomes the catalog: whenever
\* masterConfig is set it is well-formed, and every sheet graded was graded
\* against a well-formed catalog.
C14_MalformedRejected ==
    /\ masterConfig # null => WellFormed(masterConfig.boxes)
    /\ \A g \in Graded : WellFormed(g.origin.cfg.boxes)

\* C15: in the catalog analyzeMasterSheet returned, every key of correctAnswers
\* is the question number of a box, the label it maps to is the label of a box
\* of that question, namely of the last box of the question flagged isMarked in
\* response order, and every question with a flagged box has a key.
C15_CatalogInvariant ==
    masterConfig # null =>
        LET boxes == masterConfig.boxes
            key == masterConfig.correctAnswers
            Flagged(q) == { k \in 1..Len(boxes) :
                               boxes[k].questionNumber = q /\ boxes[k].isMarked }
        IN  /\ \A q \in DOMAIN key :
                  /\ \E k \in 1..Len(boxes) :
                        boxes[k].questionNumber = q /\ boxes[k].optionLabel = key[q]
                  /\ Flagged(q) # {}
                  /\ \E k \in Flagged(q) :
                        /\ \A j \in Flagged(q) : j <= k
                        /\ key[q] = boxes[k].optionLabel
            /\ \A k \in 1..Len(boxes) :
                  boxes[k].isMarked => boxes[k].questionNumber \in DOMAIN key

\* the catalog of the response that flags boxes A and C of question 1: C is kept
C15_Witness ==
    /\ masterConfig = Catalog(DoubleMarked)
    /\ masterConfig.boxes[1].isMarked /\ masterConfig.boxes[1].optionLabel = "A"
    /\ masterConfig.boxes[3].isMarked
    /\ masterConfig.correctAnswers[1] = "C"

\* C16: in every report the detail records are in strictly ascending order of
\* question number.
C16_DetailsAscending ==
    \A g \in Graded :
        \A j, k \in 1..Len(g.report.details) :
            j < k => g.report.details[j].question < g.report.details[k].question

\* a published report under the catalog that lists question 10 before question
\* 2: its records are those of questions 2 and 10, in that order
C16_Witness ==
    \E k \in 1..Len(gradingResults) :
        /\ resultsOrigin[k].cfg = Catalog(TenBeforeTwo)
        /\ resultsOrigin[k].cfg.boxes[1].questionNumber = 10
        /\ Len(gradingResults[k].details) = 2
        /\ gradingResults[k].details[1].question = 2
        /\ gradingResults[k].details[2].question = 10

-----------------------------------------------------------------------------
(* The threshold: one sheet of 50 x 50 pixels with two questions of two     *)
(* boxes, each box 25 x 25 pixels, so that checkInkDensity samples 15 x 15  *)
(* pixels and divides by 225: 18 dark pixels are a density of exactly 0.08. *)

QuadrantSize == << 50, 50 >>

\* boxes A and B of questions 1 and 2, each a quarter of the sheet; the key is
\* {1: A, 2: B}
QuadrantLayout ==
    [k \in 1..4 |->
        LET q == ((k - 1) \div 2) + 1
            o == ((k - 1) % 2) + 1
        IN  [questionNumber |-> q, optionLabel |-> Labels[o],
             x |-> 50 * (o - 1), y |-> 50 * (q - 1), w |-> 50, h |-> 50,
             isMarked |-> (q = o)]]

\* dark pixels a student may have left inside the sampled part of a box
InkCounts == { 0, 17, 18, 19 }

\* n dark pixels (n <= 30) in the sampled part of the k-th box, from its corner
InkStrokes(k, n) ==
    LET px == 25 * ((k - 1) % 2) + 5
        py == 25 * ((k - 1) \div 2) + 5
    IN  IF n = 0 THEN << >>
        ELSE IF n <= 15 THEN << Rect(px, py, px + n, py + 1, Grey159) >>
        ELSE << Rect(px, py, px + 15, py + 1, Grey159),
                Rect(px, py + 1, px + (n - 15), py + 2, Black) >>

\* the photograph with ink[k] dark pixels in box k
QuadrantSheet(ink) ==
    Image(QuadrantSize[1], QuadrantSize[2], Grey160,
          InkStrokes(1, ink[1]) \o InkStrokes(2, ink[2])
          \o InkStrokes(3, ink[3]) \o InkStrokes(4, ink[4]))

QuadrantSheets == { QuadrantSheet(ink) : ink \in [1..4 -> InkCounts] }

InitThreshold ==
    /\ step = "grading"
    /\ isProcessing = TRUE
    /\ masterConfig = Catalog(QuadrantLayout)
    /\ gradingResults = << >>
    /\ errorMessage = null
    /\ apiKey = TRUE
    /\ showApiKeyInput = FALSE
    /\ canvas \in { BlankCanvas } \cup UploadSheets
    /\ master = NoMaster
    /\ uploads = [u \in Slots |->
                    IF u = 1
                    THEN [NoUpload EXCEPT !.pc = "reading", !.n = 1, !.cfg = masterConfig]
                    ELSE NoUpload]
    /\ resultsOrigin = << >>
    /\ probe = NoProbe

NextThreshold ==
    \/ \E kind \in FileKinds : UploadRead(1, kind)
    \/ \E img \in QuadrantSheets, found \in CanvasStates, draw \in Draws :
          UploadOnLoad(1, img, found, draw)

SpecThreshold == InitThreshold /\ [][NextThreshold]_vars

\* density d is strictly greater than 0.08: dark / (0.36 * area / 10^4) > 8/100,
\* that is dark * 10^8 > 288 * area
AboveThreshold(d) == d.area > 0 /\ d.dark * 3125000 > 9 * d.area

\* density d is exactly 0.08
AtThreshold(d) == d.area > 0 /\ d.dark * 3125000 = 9 * d.area

\* the boxes of question q whose density on the sheet of origin o is above 0.08
BoxesAbove(o, q) ==
    { k \in 1..Len(o.cfg.boxes) :
         /\ o.cfg.boxes[k].questionNumber = q
         /\ AboveThreshold(checkInkDensity(o.image, o.cfg.boxes[k])) }

\* C17: the boxes that count as marks are exactly those with a density strictly
\* above 0.08: a question's answer is the label of its only such box, it is
\* flagged when it has two, and a box with a density of 0.08 or less counts for
\* nothing.
C17_StrictThreshold ==
    \A g \in Graded : \A d \in DetailsOf(g) :
        LET m == BoxesAbove(g.origin, d.question)
        IN  /\ d.isWarning = (Cardinality(m) >= 2)
            /\ IF Cardinality(m) = 1
               THEN \E k \in m : d.studentAnswer = Str(g.origin.cfg.boxes[k].optionLabel)
               ELSE d.studentAnswer = null

\* a published report for a sheet whose box A of question 1 has a density of
\* exactly 0.08 and whose box B is above it: the answer is B, without a warning;
\* in question 2 both boxes are at 0.08 or below and there is no answer
C17_Witness ==
    \E k \in 1..Len(gradingResults) :
        LET o == resultsOrigin[k]
            r == gradingResults[k]
        IN  /\ AtThreshold(checkInkDensity(o.image, o.cfg.boxes[1]))
            /\ BoxesAbove(o, 1) = { 2 }
            /\ r.details[1].studentAnswer = Str("B") /\ ~r.details[1].isWarning
            /\ AtThreshold(checkInkDensity(o.image, o.cfg.boxes[4]))
            /\ BoxesAbove(o, 2) = {}
            /\ r.details[2].studentAnswer = null /\ ~r.details[2].isWarning

\* C18: a report is pushed by the very step that draws its sheet: that step
\* pushes one report only, leaves the sheet's bitmap on the canvas, and the
\* report's records are those read from that bitmap; so no other evaluation
\* comes between the drawing and the sampling, however two uploads interleave.
C18_EvaluationIsAtomic ==
    [][\A g \in Graded' \ Graded :
          /\ Cardinality(Graded' \ Graded) = 1
          /\ canvas' = drawImage(canvas, g.origin.image)
          /\ g.report.details = Details(canvas', g.origin.cfg)]_vars

\* two uploads interleave on the canvas: one has graded its first sheet and has
\* another to go, and the canvas now holds the different sheet that the other
\* upload graded after it and published
C18_Witness ==
    \E u \in Slots :
        /\ uploads[u].pc \in { "reading", "decoding" }
        /\ Len(uploads[u].newResults) = 1
        /\ Len(gradingResults) = 1
        /\ resultsOrigin[1].upload # u
        /\ canvas = resultsOrigin[1].image
        /\ uploads[u].newOrigin[1].image # canvas

\* C19: the reports held in gradingResults have pairwise distinct studentId.
C19_DistinctIds ==
    \A a, b \in 1..Len(gradingResults) :
        a # b => gradingResults[a].studentId # gradingResults[b].studentId

\* C20: reports are held and the results screen is shown only for uploads
\* submitted since the last resetSystem.  Such an upload needs a catalog loaded
\* since that reset, and masterConfig then keeps that catalog until the next
\* reset: so while reports are held or the step is 'results', masterConfig is
\* set and is the catalog every held report was graded against.
C20_ResetDiscardsInFlight ==
    (step = "results" \/ gradingResults # << >>) =>
        /\ masterConfig # null
        /\ \A k \in 1..Len(gradingResults) : resultsOrigin[k].cfg = masterConfig

\* the step in which a handleMasterUpload call that got to its try block ends
MasterEnds == master.pc # "idle" /\ master'.pc = "idle"

\* the step in which handleMasterUpload returns for want of an API key
MasterRefused == master.pc = "idle" /\ ~showApiKeyInput /\ showApiKeyInput'

\* C21: the step that ends handleMasterUpload leaves isProcessing false; it
\* either leaves masterConfig and step as they were and sets errorMessage, or
\* sets masterConfig and takes step to 'grading'; a call refused for want of a
\* key changes neither; and step is 'grading' only while masterConfig is set.
C21_MasterUploadOutcome ==
    [][/\ MasterEnds =>
             /\ isProcessing' = FALSE
             /\ \/ /\ masterConfig' = masterConfig
                   /\ step' = step
                   /\ step' # "grading"
                   /\ errorMessage' # null
                \/ /\ masterConfig' # null
                   /\ masterConfig' # masterConfig
                   /\ step' = "grading"
       /\ MasterRefused =>
             isProcessing' = FALSE /\ masterConfig' = masterConfig /\ step' = step
       /\ step' = "grading" => masterConfig' # null]_vars

\* a call has failed: the error is shown, the spinner is off, and the app is
\* still on the welcome screen without a catalog
C21_Witness ==
    /\ apiKey
    /\ master.pc = "idle"
    /\ errorMessage = Str("analysis failed")
    /\ isProcessing = FALSE
    /\ step = "welcome"
    /\ masterConfig = null

====
